---- MODULE Spec2Model ----
(***************************************************************************)
(* The serving harness of the iris inference service                       *)
(* (src/.ipynb_checkpoints/main-checkpoint.py): the startup load and the   *)
(* readiness / liveness flags, the timing middleware, the probes, the      *)
(* /predict handler and the global exception handler.                      *)
(*                                                                         *)
(* The artifact is opaque: what joblib.load, model.predict and             *)
(* model.predict_proba return or raise is an input of the actions.         *)
(* The framework's fixed behaviour is modelled where the handlers rely on  *)
(* it: an HTTPException becomes a JSON response {"detail": ...} inside the *)
(* timing middleware; an exception no handler caught leaves call_next as   *)
(* an exception and is answered by the handler registered for Exception,   *)
(* outside the timing middleware; a returned dict is JSON-encoded (bytes   *)
(* are decoded, a NaN float is refused with a ValueError); the body of a   *)
(* POST /predict is validated into IrisData before predict is entered, and *)
(* a body that does not validate is answered 422.                          *)
(* time.time() is the wall clock: a later reading may be smaller.          *)
(* Requests are handled concurrently: await call_next(request) returns to  *)
(* the event loop, so any number of requests may stand between the two     *)
(* halves of the timing middleware, and their steps interleave with each   *)
(* other and with startup.                                                 *)
(***************************************************************************)
EXTENDS Integers, Sequences, FiniteSets

\* ------------------------------------------------------------------ bounds
\* Requests received in one run of the process; all of them may be in flight
\* at once.
MaxRequests == 2

\* ------------------------------------------------------------ pure helpers
\* Width of the "032x" format and of the "0" * 32 fallback.
TraceIdWidth == 32

HexChars == <<"0", "1", "2", "3", "4", "5", "6", "7",
              "8", "9", "a", "b", "c", "d", "e", "f">>

RECURSIVE HexDigits(_)
\* format(n, "x"): the lowercase hexadecimal digits of n, most significant first.
HexDigits(n) ==
    IF n < 16 THEN <<HexChars[n + 1]>>
    ELSE HexDigits(n \div 16) \o <<HexChars[(n % 16) + 1]>>

RECURSIVE ZeroPad(_, _)
\* The "0<w>" part of a format spec: zeros on the left up to width w, never a cut.
ZeroPad(s, w) == IF Len(s) >= w THEN s ELSE ZeroPad(<<"0">> \o s, w)

\* A plausible slip: format(trace_id, "x"), the padding forgotten.
Format032x_unpadded(n) == HexDigits(n)

\* format(n, "032x")
Format032x(n) == ZeroPad(HexDigits(n), TraceIdWidth)

\* "0" * 32
ZeroTraceId == [i \in 1..TraceIdWidth |-> "0"]

\* try: format(span.get_span_context().trace_id, "032x") except: "0" * 32.
\* A span context is [ok, trace_id]; ok = FALSE stands for get_span_context raising.
SafeTraceId(ctx) == IF ctx.ok THEN Format032x(ctx.trace_id) ELSE ZeroTraceId

\* trace.get_current_span() with no span active: the invalid span, trace id 0.
InvalidSpanContext == [ok |-> TRUE, trace_id |-> 0]

\* Trace ids the tracer generates for a started span (128-bit in the program,
\* sampled here below 2^31; a generated id is never 0).
TraceIds == {48879, 2147483647}

\* ---------------------------------------------------------------- artifact
NoModel == [loaded |-> FALSE, has_proba |-> FALSE]

\* What joblib.load can return: an estimator with or without predict_proba.
Artifacts == {[loaded |-> TRUE, has_proba |-> p] : p \in BOOLEAN}

\* pred[0].item(): a str label, or a bytes label (an estimator fitted on bytes).
Labels == {[kind |-> "str", text |-> "setosa"],
           [kind |-> "bytes", text |-> "setosa"]}

NoLabel == [kind |-> "none", text |-> ""]

\* model.predict(features): raises, or returns a label.
PredictOutcomes ==
    {[raises |-> TRUE, label |-> NoLabel]}
        \cup {[raises |-> FALSE, label |-> l] : l \in Labels}

\* model.predict_proba(features) followed by float(np.max(proba)):
\* raises, or yields a float, which may be NaN.
ProbaOutcomes == {"raise", "nan", "0.5"}

\* json.dumps(payload) of the standard library: raises TypeError on bytes.
JsonDumpsOk(label) == label.kind # "bytes"

\* The framework's encoding of the returned dict: bytes are decoded to str.
EncodeLabel(label) == label.text

\* The framework's JSON rendering refuses NaN (allow_nan=False): ValueError.
RenderOk(confidence) == confidence # "nan"

\* ------------------------------------------------------------- responses
EmptyBody ==
    [keys |-> {}, detail |-> "", status |-> "", message |-> "",
     predicted_species |-> "", confidence |-> "none", trace_id |-> <<>>]

NoHeaders == [has_time |-> FALSE, time_ms |-> 0]

NoResponse == [status_code |-> 0, body |-> EmptyBody, headers |-> NoHeaders]

JsonResponse(code, body) ==
    [status_code |-> code, body |-> body, headers |-> NoHeaders]

\* Response(status_code=code): no body at all.
BareResponse(code) == JsonResponse(code, EmptyBody)

\* raise HTTPException(status_code=code, detail=d), as the framework answers it.
HTTPExceptionResponse(code, d) ==
    JsonResponse(code, [EmptyBody EXCEPT !.keys = {"detail"}, !.detail = d])

\* The framework's answer to a body that does not validate as IrisData:
\* 422 {"detail": [<the validation errors>]}.
ValidationErrorResponse ==
    JsonResponse(422, [EmptyBody EXCEPT !.keys = {"detail"},
                                        !.detail = "[validation errors]"])

\* A plausible slip: the prediction failure reported with the readiness status.
PredictionFailed_503(rid, trace_id) ==
    [events |-> <<[event |-> "prediction_error", rid |-> rid, trace_id |-> trace_id,
                   predicted |-> "", confidence |-> "none"]>>,
     resp |-> HTTPExceptionResponse(503, "Model not ready")]

\* except Exception as e: logger.exception(prediction_error); raise HTTPException(500)
PredictionFailed(rid, trace_id) ==
    [events |-> <<[event |-> "prediction_error", rid |-> rid, trace_id |-> trace_id,
                   predicted |-> "", confidence |-> "none"]>>,
     resp |-> HTTPExceptionResponse(500, "Prediction failed")]

\* confidence: None unless the model has predict_proba and the computation
\* did not raise.
Confidence(has_proba, proba) ==
    IF has_proba /\ proba # "raise" THEN proba ELSE "none"

\* response = {"predicted_species": predicted}; confidence added if not None.
PredictBody(label, confidence) ==
    IF confidence # "none"
    THEN [EmptyBody EXCEPT !.keys = {"predicted_species", "confidence"},
                           !.predicted_species = EncodeLabel(label),
                           !.confidence = confidence]
    ELSE [EmptyBody EXCEPT !.keys = {"predicted_species"},
                           !.predicted_species = EncodeLabel(label)]

\* ------------------------------------------------------------------ state
VARIABLES
    app_state,      \* the flags: [is_ready, is_alive]
    model,          \* app.state.model, NoModel while the attribute is missing
    spc,            \* where startup_event stands
    load_calls,     \* how many times load(MODEL_PATH) was called
    log,            \* the records the logger emitted, in order
    req             \* the requests, by order of arrival: req[i] is the i-th

vars == <<app_state, model, spc, load_calls, log, req>>

Rids == 1..MaxRequests

\* What time.time() may read at line 109, in milliseconds from the reading of
\* line 107 of the same request: the wall clock, so a later reading may be
\* smaller. Other requests read the clock in between; nothing ties the
\* readings of one request to those of another.
Times == {0 - 1, 0, 1}

Routes == {"/", "/live_check", "/ready_check", "/predict"}

IdleReq ==
    [route |-> "/", body_valid |-> TRUE, stage |-> "idle", start_time |-> 0,
     ready_seen |-> FALSE, model_seen |-> NoModel, span |-> InvalidSpanContext,
     invoked |-> FALSE, features_ok |-> TRUE, pred |-> [raises |-> FALSE, label |-> NoLabel],
     proba |-> "none", log_raised |-> FALSE, by |-> "none", resp |-> NoResponse]

Init ==
    /\ app_state = [is_ready |-> FALSE, is_alive |-> TRUE]
    /\ model = NoModel
    /\ spc = "start"
    /\ load_calls = 0
    /\ log = <<>>
    /\ req = [i \in Rids |-> IdleReq]

StartupEvent(name) ==
    [event |-> name, rid |-> 0, trace_id |-> <<>>, predicted |-> "", confidence |-> "none"]

\* ---------------------------------------------------------------- startup
\* app.state.model = load(MODEL_PATH): stores the artifact, or raises.
startup_event_load ==
    /\ spc = "start"
    /\ load_calls' = load_calls + 1
    /\ \E ok \in BOOLEAN :
          IF ok
          THEN \E a \in Artifacts : model' = a /\ spc' = "stored"
          ELSE model' = model /\ spc' = "except"
    /\ UNCHANGED <<app_state, log, req>>

\* logger.info(model_loaded)
startup_event_log_loaded ==
    /\ spc = "stored"
    /\ log' = Append(log, StartupEvent("model_loaded"))
    /\ spc' = "logged"
    /\ UNCHANGED <<app_state, model, load_calls, req>>

\* app_state["is_ready"] = True
startup_event_set_ready ==
    /\ spc = "logged"
    /\ app_state' = [app_state EXCEPT !.is_ready = TRUE]
    /\ spc' = "done"
    /\ UNCHANGED <<model, load_calls, log, req>>

\* A plausible slip: the flag written True in the except branch.
startup_event_except_ready ==
    /\ spc = "except"
    /\ log' = Append(log, StartupEvent("model_load_failed"))
    /\ app_state' = [app_state EXCEPT !.is_ready = TRUE]
    /\ spc' = "failed"
    /\ UNCHANGED <<model, load_calls, req>>

\* A plausible slip: the return forgotten, control falls to the last line.
startup_event_except_no_return ==
    /\ spc = "except"
    /\ log' = Append(log, StartupEvent("model_load_failed"))
    /\ app_state' = [app_state EXCEPT !.is_ready = TRUE]
    /\ spc' = "done"
    /\ UNCHANGED <<model, load_calls, req>>

\* except Exception: logger.exception(model_load_failed); is_ready = False; return
startup_event_except ==
    /\ spc = "except"
    /\ log' = Append(log, StartupEvent("model_load_failed"))
    /\ app_state' = [app_state EXCEPT !.is_ready = FALSE]
    /\ spc' = "failed"
    /\ UNCHANGED <<model, load_calls, req>>

\* ------------------------------------------------------------- middleware
\* start_time = time.time(); response = await call_next(request).
\* The i-th request arrives once the requests before it have; those may all
\* still be in flight.
add_process_time_header_enter(i) ==
    /\ req[i].stage = "idle"
    /\ \A j \in Rids : j < i => req[j].stage # "idle"
    /\ \E r \in Routes, v \in BOOLEAN :
          \* only POST /predict has a body to validate
          /\ (r # "/predict") => v
          \* start_time is the origin the request's second reading is measured from
          /\ req' = [req EXCEPT ![i] = [IdleReq EXCEPT !.route = r, !.body_valid = v,
                                           !.stage = "route", !.start_time = 0]]
    /\ UNCHANGED <<app_state, model, spc, load_calls, log>>

\* duration = round((time.time() - start_time) * 1000, 2); the header is set.
\* Reached only when call_next returned a response. The second reading of the
\* wall clock may lie before the first.
add_process_time_header_exit(i) ==
    /\ req[i].stage = "mw_exit"
    /\ \E t \in Times :
          req' = [req EXCEPT ![i].stage = "sent",
                             ![i].resp.headers = [has_time |-> TRUE,
                                                  time_ms |-> t - req[i].start_time]]
    /\ UNCHANGED <<app_state, model, spc, load_calls, log>>

\* --------------------------------------------------------------- handlers
home(i) ==
    /\ req[i].stage = "route" /\ req[i].route = "/"
    /\ req' = [req EXCEPT ![i].stage = "mw_exit", ![i].by = "handler",
                  ![i].resp = JsonResponse(200, [EmptyBody EXCEPT
                               !.keys = {"message"},
                               !.message = "IRIS Model API is running!"])]
    /\ UNCHANGED <<app_state, model, spc, load_calls, log>>

\* A plausible slip: the liveness probe reading the readiness flag.
liveness_probe_reads_ready(i) ==
    /\ req[i].stage = "route" /\ req[i].route = "/live_check"
    /\ req' = [req EXCEPT ![i].stage = "mw_exit", ![i].by = "handler",
                  ![i].resp = IF app_state.is_ready
                              THEN JsonResponse(200, [EmptyBody EXCEPT
                                       !.keys = {"status"}, !.status = "alive"])
                              ELSE BareResponse(500)]
    /\ UNCHANGED <<app_state, model, spc, load_calls, log>>

liveness_probe(i) ==
    /\ req[i].stage = "route" /\ req[i].route = "/live_check"
    /\ req' = [req EXCEPT ![i].stage = "mw_exit", ![i].by = "handler",
                  ![i].resp = IF app_state.is_alive
                              THEN JsonResponse(200, [EmptyBody EXCEPT
                                       !.keys = {"status"}, !.status = "alive"])
                              ELSE BareResponse(500)]
    /\ UNCHANGED <<app_state, model, spc, load_calls, log>>

\* A plausible slip: the readiness probe reading the liveness flag.
readiness_probe_reads_alive(i) ==
    /\ req[i].stage = "route" /\ req[i].route = "/ready_check"
    /\ req' = [req EXCEPT ![i].stage = "mw_exit", ![i].by = "handler",
                  ![i].ready_seen = app_state.is_ready,
                  ![i].resp = IF app_state.is_alive
                              THEN JsonResponse(200, [EmptyBody EXCEPT
                                       !.keys = {"status"}, !.status = "ready"])
                              ELSE BareResponse(503)]
    /\ UNCHANGED <<app_state, model, spc, load_calls, log>>

readiness_probe(i) ==
    /\ req[i].stage = "route" /\ req[i].route = "/ready_check"
    /\ req' = [req EXCEPT ![i].stage = "mw_exit", ![i].by = "handler",
                  ![i].ready_seen = app_state.is_ready,
                  ![i].resp = IF app_state.is_ready
                              THEN JsonResponse(200, [EmptyBody EXCEPT
                                       !.keys = {"status"}, !.status = "ready"])
                              ELSE BareResponse(503)]
    /\ UNCHANGED <<app_state, model, spc, load_calls, log>>

\* data: IrisData: the body is validated before predict is entered.
predict_validate(i) ==
    /\ req[i].stage = "route" /\ req[i].route = "/predict"
    /\ req' = IF req[i].body_valid
              THEN [req EXCEPT ![i].stage = "check"]
              ELSE [req EXCEPT ![i].stage = "mw_exit", ![i].by = "validation",
                               ![i].resp = ValidationErrorResponse]
    /\ UNCHANGED <<app_state, model, spc, load_calls, log>>

\* A plausible slip: only the presence of the model attribute is checked.
predict_check_model_only(i) ==
    /\ req[i].stage = "check" /\ req[i].route = "/predict"
    /\ req' = IF ~model.loaded
              THEN [req EXCEPT ![i].stage = "mw_exit", ![i].by = "http_exception",
                               ![i].ready_seen = app_state.is_ready,
                               ![i].resp = HTTPExceptionResponse(503, "Model not ready")]
              ELSE [req EXCEPT ![i].stage = "infer",
                               ![i].ready_seen = app_state.is_ready]
    /\ UNCHANGED <<app_state, model, spc, load_calls, log>>

\* if not app_state["is_ready"] or not hasattr(app.state, "model"): raise 503
predict_check(i) ==
    /\ req[i].stage = "check" /\ req[i].route = "/predict"
    /\ req' = IF ~app_state.is_ready \/ ~model.loaded
              THEN [req EXCEPT ![i].stage = "mw_exit", ![i].by = "http_exception",
                               ![i].ready_seen = app_state.is_ready,
                               ![i].resp = HTTPExceptionResponse(503, "Model not ready")]
              ELSE [req EXCEPT ![i].stage = "infer",
                               ![i].ready_seen = app_state.is_ready]
    /\ UNCHANGED <<app_state, model, spc, load_calls, log>>

\* The body of the span: the trace id, the try block and its except branch,
\* then the framework's rendering of the returned dict.
predict_infer(i) ==
    /\ req[i].stage = "infer"
    /\ \E tid \in TraceIds, fok \in BOOLEAN, po \in PredictOutcomes,
          pr \in ProbaOutcomes :
          LET ctx == [ok |-> TRUE, trace_id |-> tid]
              trace_id == SafeTraceId(ctx)
              m == model
              called == fok
              predicted == po.label
              asked == fok /\ ~po.raises /\ m.has_proba
              confidence == Confidence(m.has_proba, pr)
              dumped == JsonDumpsOk(predicted)
              seen == [req[i] EXCEPT !.span = ctx, !.model_seen = m,
                                     !.features_ok = fok, !.invoked = called,
                                     !.pred = IF called THEN po ELSE req[i].pred,
                                     !.proba = IF asked THEN pr ELSE "none"]
              failed == PredictionFailed(i, trace_id)
          IN  \* a value that is never read makes no difference to the outcome
              /\ (~fok => po = [raises |-> TRUE, label |-> NoLabel])
              /\ (~asked => pr = "raise")
              /\ IF ~fok \/ po.raises
                 THEN /\ log' = log \o failed.events
                      /\ req' = [req EXCEPT ![i] =
                                    [seen EXCEPT !.stage = "mw_exit",
                                                 !.by = "http_exception",
                                                 !.resp = failed.resp]]
                 ELSE IF ~dumped
                 THEN /\ log' = log \o failed.events
                      /\ req' = [req EXCEPT ![i] =
                                    [seen EXCEPT !.stage = "mw_exit",
                                                 !.by = "http_exception",
                                                 !.log_raised = TRUE,
                                                 !.resp = failed.resp]]
                 ELSE /\ log' = Append(log,
                                  [event |-> "prediction", rid |-> i,
                                   trace_id |-> trace_id,
                                   predicted |-> EncodeLabel(predicted),
                                   confidence |-> confidence])
                      /\ req' = [req EXCEPT ![i] =
                                    IF RenderOk(confidence)
                                    THEN [seen EXCEPT !.stage = "mw_exit",
                                             !.by = "handler",
                                             !.resp = JsonResponse(200,
                                                         PredictBody(predicted, confidence))]
                                    ELSE [seen EXCEPT !.stage = "raised"]]
    /\ UNCHANGED <<app_state, model, spc, load_calls>>

\* The handler registered for Exception: runs outside the timing middleware,
\* with no span active.
exception_handler(i) ==
    /\ req[i].stage = "raised"
    /\ LET trace_id == SafeTraceId(InvalidSpanContext)
       IN /\ log' = Append(log, [event |-> "unhandled_exception", rid |-> i,
                                 trace_id |-> trace_id, predicted |-> "",
                                 confidence |-> "none"])
          /\ req' = [req EXCEPT ![i].stage = "sent", ![i].by = "exception_handler",
                        ![i].resp = JsonResponse(500, [EmptyBody EXCEPT
                                        !.keys = {"detail", "trace_id"},
                                        !.detail = "Internal Server Error",
                                        !.trace_id = trace_id])]
    /\ UNCHANGED <<app_state, model, spc, load_calls>>

Next ==
    \/ startup_event_load
    \/ startup_event_log_loaded
    \/ startup_event_set_ready
    \/ startup_event_except
    \/ \E i \in Rids : add_process_time_header_enter(i)
    \/ \E i \in Rids : add_process_time_header_exit(i)
    \/ \E i \in Rids : home(i)
    \/ \E i \in Rids : liveness_probe(i)
    \/ \E i \in Rids : readiness_probe(i)
    \/ \E i \in Rids : predict_validate(i)
    \/ \E i \in Rids : predict_check(i)
    \/ \E i \in Rids : predict_infer(i)
    \/ \E i \in Rids : exception_handler(i)

Spec == Init /\ [][Next]_vars

\* ------------------------------------------------------------- properties
\* The positions in the log of the records of request rid tagged name.
EventsOf(rid, name) ==
    {k \in 1..Len(log) : log[k].rid = rid /\ log[k].event = name}

\* ^[0-9a-f]{32}$
IsHex32(s) ==
    /\ Len(s) = 32
    /\ \A n \in 1..Len(s) : \E k \in 1..Len(HexChars) : s[n] = HexChars[k]

\* The response of request i has left the handler (the header may still be
\* missing).
Answered(i) == req[i].stage \in {"mw_exit", "sent"}

NotReadyBody == [EmptyBody EXCEPT !.keys = {"detail"}, !.detail = "Model not ready"]

PredictionFailedBody ==
    [EmptyBody EXCEPT !.keys = {"detail"}, !.detail = "Prediction failed"]

\* A POST /predict whose body validated, so that predict itself was entered
\* and has answered.
HandledByPredict(i) ==
    req[i].route = "/predict" /\ Answered(i) /\ req[i].body_valid

\* C1 as claimed: every /predict request handled while is_ready is false is
\* answered 503 {"detail": "Model not ready"}, never invokes the model and
\* emits neither a prediction nor a prediction_error record.
C1_FailClosed ==
    \A i \in Rids :
        (req[i].route = "/predict" /\ Answered(i) /\ ~app_state.is_ready) =>
            /\ req[i].resp.status_code = 503
            /\ req[i].resp.body = NotReadyBody
            /\ ~req[i].invoked
            /\ EventsOf(i, "prediction") = {}
            /\ EventsOf(i, "prediction_error") = {}

\* C1 as amended: a /predict request whose body validates and that predict
\* handles while is_ready is false is answered 503 {"detail": "Model not
\* ready"}; a body that does not validate is answered 422 whatever the flag;
\* in both cases the model is never invoked and no prediction or
\* prediction_error record is emitted, and no request reaches the inference
\* step with the flag read false. This holds for every request, whatever the
\* other requests in flight do.
C1_FailClosedValidBody ==
    \A i \in Rids :
        /\ (HandledByPredict(i) /\ ~req[i].ready_seen) =>
              /\ req[i].resp.status_code = 503
              /\ req[i].resp.body = NotReadyBody
        /\ (req[i].route = "/predict" /\ Answered(i) /\ ~req[i].body_valid) =>
              /\ req[i].resp.status_code = 422
              /\ req[i].by = "validation"
        /\ (req[i].route = "/predict" /\ Answered(i)
                /\ (~req[i].body_valid \/ ~req[i].ready_seen)) =>
              /\ ~req[i].invoked
              /\ EventsOf(i, "prediction") = {}
              /\ EventsOf(i, "prediction_error") = {}
        /\ (req[i].stage \in {"infer", "raised"}) =>
              (req[i].ready_seen /\ req[i].body_valid)

\* C1 witness: the model is already stored but the flag is still false, and a
\* /predict request with a valid body has been refused while another request
\* is in flight.
C1_Witness ==
    \E i, j \in Rids :
        /\ i # j /\ req[j].stage \in {"route", "check", "mw_exit"}
        /\ req[i].route = "/predict" /\ req[i].stage = "sent" /\ req[i].body_valid
        /\ ~req[i].ready_seen /\ model.loaded /\ req[i].resp.status_code = 503

C2_ResponsesAsClaimed ==
    /\ (spc # "done") => ~app_state.is_ready
    /\ \A i \in Rids :
        /\ (Answered(i) /\ req[i].route \in {"/ready_check", "/predict"}
                /\ ~app_state.is_ready) => req[i].resp.status_code = 503
        /\ (Answered(i) /\ req[i].route = "/ready_check" /\ req[i].ready_seen) =>
              /\ req[i].resp.status_code = 200
              /\ req[i].resp.body = [EmptyBody EXCEPT !.keys = {"status"},
                                                      !.status = "ready"]
        /\ (Answered(i) /\ req[i].route = "/predict" /\ req[i].ready_seen) =>
              req[i].resp.status_code # 503

\* C2 as claimed: while the load has not completed every /ready_check and
\* every /predict answers 503; with the flag true /ready_check answers 200
\* {"status": "ready"} and /predict no longer answers 503; and no step ever
\* takes is_ready from true back to false.
C2_ReadinessOneWay ==
    /\ []C2_ResponsesAsClaimed
    /\ [][app_state.is_ready => app_state'.is_ready]_vars

C2_ResponsesValidBody ==
    /\ (spc # "done") => ~app_state.is_ready
    /\ \A i \in Rids :
        /\ (Answered(i) /\ req[i].route = "/ready_check") =>
              IF req[i].ready_seen
              THEN /\ req[i].resp.status_code = 200
                   /\ req[i].resp.body = [EmptyBody EXCEPT !.keys = {"status"},
                                                           !.status = "ready"]
              ELSE req[i].resp.status_code = 503
        /\ HandledByPredict(i) =>
              (req[i].resp.status_code = 503 <=> ~req[i].ready_seen)
        /\ (Answered(i) /\ req[i].route = "/predict" /\ ~req[i].body_valid) =>
              req[i].resp.status_code = 422

\* C2 as amended: readiness is one-way. While the load has not completed the
\* flag is false, /ready_check answers 503 and /predict answers 503 to every
\* body that validates (422 to one that does not); with the flag true
\* /ready_check answers 200 {"status": "ready"} and /predict no longer answers
\* 503; and no step ever takes is_ready from true back to false.
C2_ReadinessOneWayValidBody ==
    /\ []C2_ResponsesValidBody
    /\ [][app_state.is_ready => app_state'.is_ready]_vars

\* C2 witness: a prediction has failed or an exception went unhandled, and a
\* /ready_check still answers 200.
C2_Witness ==
    \E i \in Rids :
        /\ req[i].route = "/ready_check" /\ req[i].stage = "sent"
        /\ req[i].ready_seen /\ req[i].resp.status_code = 200
        /\ \E k \in 1..Len(log) :
              log[k].event \in {"prediction_error", "unhandled_exception"}

\* C3 as claimed: after a failed load a model_load_failed record is logged,
\* load is not called again, is_ready stays false, and every /ready_check and
\* every /predict answers 503.
C3_LoadFailureAbsorbed ==
    /\ load_calls <= 1
    /\ (spc = "failed") =>
          /\ Cardinality(EventsOf(0, "model_load_failed")) = 1
          /\ ~app_state.is_ready
          /\ \A i \in Rids :
                (Answered(i) /\ req[i].route \in {"/ready_check", "/predict"}) =>
                    req[i].resp.status_code = 503

\* C3 as amended: after a failed load exactly one model_load_failed record is
\* logged, startup has returned (requests are still answered), load was
\* called once and is never called again, is_ready is false, and every
\* /ready_check and every /predict whose body validates answers 503 (a
\* /predict whose body does not validate answers 422).
C3_LoadFailureAbsorbedValidBody ==
    /\ load_calls <= 1
    /\ (spc = "except") => ~app_state.is_ready
    /\ (spc = "failed") =>
          /\ Cardinality(EventsOf(0, "model_load_failed")) = 1
          /\ EventsOf(0, "model_loaded") = {}
          /\ load_calls = 1
          /\ ~app_state.is_ready
          /\ \A i \in Rids :
                /\ (Answered(i) /\ req[i].route = "/ready_check") =>
                      req[i].resp.status_code = 503
                /\ HandledByPredict(i) => req[i].resp.status_code = 503
                /\ (Answered(i) /\ req[i].route = "/predict"
                        /\ ~req[i].body_valid) => req[i].resp.status_code = 422

\* C3 witness: the load failed, and afterwards the second request, a /predict
\* with a valid body, has been answered 503.
C3_Witness ==
    /\ spc = "failed"
    /\ req[1].stage = "sent"
    /\ req[2].route = "/predict" /\ req[2].stage = "sent" /\ req[2].body_valid
    /\ req[2].resp.status_code = 503

\* C4 as claimed: every error response carries a 32-character lowercase
\* hexadecimal trace identifier in its body.
C4_EveryErrorHasTraceId ==
    \A i \in Rids :
        (req[i].stage = "sent" /\ req[i].resp.status_code >= 400) =>
            /\ "trace_id" \in req[i].resp.body.keys
            /\ IsHex32(req[i].resp.body.trace_id)

\* C4 as amended: among the error responses exactly those of the global
\* exception handler carry a trace identifier, which is 32 lowercase
\* hexadecimal characters beside "Internal Server Error"; the 503, 500 and
\* 422 of /predict carry only "detail" and the 503 of /ready_check has no body.
C4_OnlyMapperHasTraceId ==
    \A i \in Rids :
        (req[i].stage = "sent" /\ req[i].resp.status_code >= 400) =>
            /\ ("trace_id" \in req[i].resp.body.keys)
                  <=> (req[i].by = "exception_handler")
            /\ (req[i].by = "exception_handler") =>
                  /\ req[i].resp.status_code = 500
                  /\ req[i].resp.body.keys = {"detail", "trace_id"}
                  /\ req[i].resp.body.detail = "Internal Server Error"
                  /\ IsHex32(req[i].resp.body.trace_id)
            /\ (req[i].by # "exception_handler") =>
                  /\ req[i].resp.body.keys \subseteq {"detail"}
                  /\ req[i].resp.body.trace_id = <<>>

\* C4 witness: the global exception handler has answered a request.
C4_Witness ==
    \E i \in Rids :
        /\ req[i].stage = "sent" /\ req[i].by = "exception_handler"
        /\ req[i].resp.status_code = 500

\* C5 as claimed: every response, the 500 of the global exception handler
\* included, carries X-Process-Time-ms with a non-negative duration.
C5_TimingOnAllPaths ==
    \A i \in Rids :
        (req[i].stage = "sent") =>
            /\ req[i].resp.headers.has_time
            /\ req[i].resp.headers.time_ms >= 0

\* Request i was admitted and feature construction or model.predict raised.
PredictionRaised(i) ==
    /\ req[i].route = "/predict" /\ req[i].ready_seen
    /\ req[i].stage \in {"mw_exit", "raised", "sent"}
    /\ (~req[i].features_ok \/ (req[i].invoked /\ req[i].pred.raises))

\* C6: when feature construction or model.predict raises for an admitted
\* request, exactly one prediction_error record tagged with the request's
\* trace id is logged for it, the answer is 500 {"detail": "Prediction
\* failed"}, and the failure never reaches the global exception handler nor
\* is reported 503, whatever the other requests in flight do.
C6_PredictionFailureLocal ==
    \A i \in Rids :
        PredictionRaised(i) =>
            /\ Cardinality(EventsOf(i, "prediction_error")) = 1
            /\ \A k \in EventsOf(i, "prediction_error") :
                  log[k].trace_id = SafeTraceId(req[i].span)
            /\ req[i].stage # "raised"
            /\ req[i].by = "http_exception"
            /\ req[i].resp.status_code = 500
            /\ req[i].resp.body = PredictionFailedBody
            /\ EventsOf(i, "unhandled_exception") = {}
            /\ EventsOf(i, "prediction") = {}

\* C6 witness: model.predict raised for two requests in flight together; the
\* first was answered 500 after the second had logged its own failure.
C6_Witness ==
    /\ req[1].stage = "sent" /\ req[1].route = "/predict"
    /\ req[1].invoked /\ req[1].pred.raises /\ req[1].resp.status_code = 500
    /\ req[2].route = "/predict" /\ req[2].invoked /\ req[2].pred.raises
    /\ req[2].stage = "mw_exit"
    /\ \E k \in EventsOf(1, "prediction_error"), l \in EventsOf(2, "prediction_error") :
          l < k

\* C7 as claimed: when model.predict succeeds the answer is 200 with
\* predicted_species, and confidence is present iff the artifact has
\* predict_proba and the confidence computation did not raise.
C7_ConfidenceBestEffort ==
    \A i \in Rids :
        (req[i].route = "/predict" /\ req[i].stage = "sent"
            /\ req[i].invoked /\ ~req[i].pred.raises) =>
            /\ req[i].resp.status_code = 200
            /\ "predicted_species" \in req[i].resp.body.keys
            /\ ("confidence" \in req[i].resp.body.keys)
                  <=> (req[i].model_seen.has_proba /\ req[i].proba # "raise")

\* C8 as claimed: when building the prediction log record raises after
\* model.predict succeeded, the request still answers 200 with
\* predicted_species.
C8_LoggingNeverAborts ==
    \A i \in Rids :
        (req[i].route = "/predict" /\ req[i].stage = "sent" /\ req[i].log_raised) =>
            /\ req[i].resp.status_code = 200
            /\ "predicted_species" \in req[i].resp.body.keys

\* C9: is_alive is true in every state, whatever the load and the requests
\* did, and every /live_check answers 200 {"status": "alive"}.
C9_AlwaysAlive ==
    /\ app_state.is_alive
    /\ \A i \in Rids :
          (Answered(i) /\ req[i].route = "/live_check") =>
              /\ req[i].resp.status_code = 200
              /\ req[i].resp.body = [EmptyBody EXCEPT !.keys = {"status"},
                                                      !.status = "alive"]

\* C9 witness: the load failed, the service is not ready, and /live_check
\* has answered 200.
C9_Witness ==
    \E i \in Rids :
        /\ spc = "failed" /\ ~app_state.is_ready
        /\ req[i].route = "/live_check" /\ req[i].stage = "sent"
        /\ req[i].resp.status_code = 200

C10_Published ==
    /\ app_state.is_ready => model.loaded
    /\ \A i \in Rids :
          /\ (req[i].stage = "infer") => model.loaded
          /\ (req[i].route = "/predict" /\ req[i].invoked) =>
                req[i].model_seen.loaded

\* C10: under every interleaving of startup with concurrently handled
\* requests, is_ready implies the model is stored, a request past the
\* readiness check reads a stored model, only a startup step writes the flag,
\* and the stored model never changes once is_ready is true.
C10_OrderedPublish ==
    /\ []C10_Published
    /\ [][app_state.is_ready => model' = model]_vars
    /\ [][app_state' # app_state => spc' # spc]_vars

\* C10 witness: two requests passed the readiness check while both were in
\* flight, called the stored model and were answered 200.
C10_Witness ==
    /\ \A i \in {1, 2} :
          /\ req[i].route = "/predict" /\ req[i].stage = "sent" /\ req[i].invoked
          /\ req[i].model_seen.loaded /\ req[i].resp.status_code = 200
    /\ \E k \in EventsOf(1, "prediction") : \E l \in EventsOf(2, "prediction") : l < k

====
